---- MODULE Spec2Model ----
(***************************************************************************)
(* bitcrawler: interactive explorer of a transaction graph.                *)
(* Model of src/bitcrawler.py: the visited chain, the navigation commands, *)
(* the dump/load of the chain and the ledger requests they make.           *)
(*                                                                         *)
(* A string is the sequence of its runs, [ch, n] standing for the character *)
(* ch repeated n times; Python's None is the value None below.  One action *)
(* is one operator command, run to the next prompt: the handlers are       *)
(* synchronous, so nothing interleaves with them.                          *)
(***************************************************************************)
EXTENDS Integers, Sequences, FiniteSets, TLC

(* ------------------------------- bounds -------------------------------- *)
\* A run is at most MaxCommands operator commands long.
MaxCommands == 4

(* -------------------------- program constants -------------------------- *)
REQUEST_DELAY == 2
RECENT_TX_COUNT == 5
TXID_LEN == 64

(* ------------------------------ strings -------------------------------- *)
None == << [ch |-> "None", n |-> 0] >>

Rep(ch, n) == << [ch |-> ch, n |-> n] >>

RECURSIVE StrLen(_)
StrLen(s) == IF s = << >> THEN 0 ELSE Head(s).n + StrLen(Tail(s))

HexChars ==
    {"0", "1", "2", "3", "4", "5", "6", "7", "8", "9",
     "a", "b", "c", "d", "e", "f", "A", "B", "C", "D", "E", "F"}

Min(a, b) == IF a <= b THEN a ELSE b

(* ------------------------- the ledger service -------------------------- *)
\* The transactions the ledger knows.  TxA is the coinbase-like transaction
\* of the spec's scenario (one input without previous id, two outputs), TxB
\* spends output 1 of TxA, TxC has neither inputs nor outputs.
TxA == Rep("a", TXID_LEN)
TxB == Rep("b", TXID_LEN)
TxC == Rep("c", TXID_LEN)
TxE == Rep("e", TXID_LEN)

AddrX == Rep("X", 1)
AddrY == Rep("Y", 1)
AddrZ == Rep("Z", 1)

LedgerIds == {TxA, TxB, TxC}

LedgerTx(id) ==
    IF id = TxA THEN
        [txid |-> TxA,
         vin  |-> << [txid |-> None, vout |-> 0] >>,
         vout |-> << [value |-> 500000, addr |-> AddrX],
                     [value |-> 499000, addr |-> AddrY] >>]
    ELSE IF id = TxB THEN
        [txid |-> TxB,
         vin  |-> << [txid |-> TxA, vout |-> 0] >>,
         vout |-> << [value |-> 400000, addr |-> AddrY] >>]
    ELSE
        [txid |-> TxC, vin |-> << >>, vout |-> << >>]

\* Python's None or an empty dict where a transaction record is expected.
NoTx == [txid |-> None, vin |-> << >>, vout |-> << >>]

\* The transaction that spends output i (1-based) of id, None when unspent.
Spender(id, i) == IF id = TxA /\ i = 1 THEN TxB ELSE None

\* One entry of an outspends answer: JSON null, {"spent": false}, or
\* {"spent": true, "txid": ...}.
NullSpend == [null |-> TRUE, spent |-> FALSE, txid |-> None]
Unspent == [null |-> FALSE, spent |-> FALSE, txid |-> None]
SpentBy(t) == [null |-> FALSE, spent |-> TRUE, txid |-> t]

\* The outspends list of id as the ledger holds it: one entry per output,
\* at the same index.
Outspends(id) ==
    [i \in 1..Len(LedgerTx(id).vout) |->
        IF Spender(id, i) = None THEN Unspent ELSE SpentBy(Spender(id, i))]

\* The outspends lists the service may answer for id: the list it holds,
\* with null in place of an entry, or cut short.
OutspendAnswers(id) ==
    LET n == Len(LedgerTx(id).vout)
    IN  {Outspends(id)}
        \cup {[Outspends(id) EXCEPT ![i] = NullSpend] : i \in 1..n}
        \cup {SubSeq(Outspends(id), 1, k) : k \in 0..(n - 1)}

\* The three ways a request ends: HTTP 200, another status code, or an
\* exception raised by the transport.
Replies(known) == IF known THEN {"200", "status", "exception"}
                  ELSE {"status", "exception"}

\* What a command does towards the service: a sleep of REQUEST_DELAY
\* seconds, or a GET of BASE_URL/<kind>/<id>[/<sub>].
Delay == [op |-> "delay", kind |-> "", id |-> None, sub |-> ""]
Get(kind, id, sub) == [op |-> "get", kind |-> kind, id |-> id, sub |-> sub]

(* ----------------------------- data fetching --------------------------- *)
\* A fetch yields [ok, tx, spends, ev, errs]: whether a value came back, the
\* value, the delay and request it made, and the error codes it logged.
FetchResult(ok, tx, spends, ev, errs) ==
    [ok |-> ok, tx |-> tx, spends |-> spends, ev |-> ev, errs |-> errs]

\* fetch_transaction_data asking once more after a failure.
fetch_transaction_data_Retry(txid, reply) ==
    LET ev == << Delay, Get("tx", txid, "") >>
    IN  IF reply = "200" THEN FetchResult(TRUE, LedgerTx(txid), << >>, ev, << >>)
        ELSE IF reply = "status"
        THEN FetchResult(FALSE, NoTx, << >>, ev \o ev, << 205 >>)
        ELSE FetchResult(FALSE, NoTx, << >>, ev \o ev, << 206 >>)

fetch_transaction_data(txid, reply) ==
    LET ev == << Delay, Get("tx", txid, "") >>
    IN  IF reply = "200" THEN FetchResult(TRUE, LedgerTx(txid), << >>, ev, << >>)
        ELSE IF reply = "status" THEN FetchResult(FALSE, NoTx, << >>, ev, << 205 >>)
        ELSE FetchResult(FALSE, NoTx, << >>, ev, << 206 >>)

fetch_transaction_outspends(txid, reply, answer) ==
    LET ev == << Delay, Get("tx", txid, "outspends") >>
    IN  IF reply = "200" THEN FetchResult(TRUE, NoTx, answer, ev, << >>)
        ELSE IF reply = "status" THEN FetchResult(FALSE, NoTx, << >>, ev, << 207 >>)
        ELSE FetchResult(FALSE, NoTx, << >>, ev, << 208 >>)

\* The replies the service can give to GET /tx/<txid>.
TxReplies(txid) == Replies(txid \in LedgerIds)

(* ---------------------------- the visited chain ------------------------ *)
\* visited_chain is a Python dict in insertion order: the sequence of its
\* items, each [key, data, from, path].  After a load it is whatever JSON
\* value the file held: t tells a dict from a list.
EmptyChain == [t |-> "dict", items |-> << >>]

Keys(chain) == {chain.items[i].key : i \in 1..Len(chain.items)}

\* The provenance strings: "initial query", "from address",
\* "followed input <n> of <txid>", "followed output <n> of <txid>".
Path(how, n, of) == [how |-> how, n |-> n, of |-> of]

Entry(key, data, from, path) ==
    [key |-> key, data |-> data, from |-> from, path |-> path]

\* d[key] = entry that adds an item whether or not the key is there.
SetItem_Append(items, e) == Append(items, e)

\* d[key] = entry that takes the key out and puts it back at the end.
SetItem_MoveToEnd(items, e) ==
    Append(SelectSeq(items, LAMBDA it : it.key # e.key), e)

\* d[key] = entry on a dict: an existing key keeps its place.
SetItem(items, e) ==
    IF \E i \in 1..Len(items) : items[i].key = e.key
    THEN [i \in 1..Len(items) |-> IF items[i].key = e.key THEN e ELSE items[i]]
    ELSE Append(items, e)

\* add_to_chain with the source of the visit dropped.
add_to_chain_NoSource(chain, tx_data, path, source_txid) ==
    IF chain.t = "dict"
    THEN [chain |-> [chain EXCEPT !.items =
                        SetItem(@, Entry(tx_data.txid, tx_data, None, path))],
          exc |-> "none"]
    ELSE [chain |-> chain, exc |-> "TypeError"]

\* add_to_chain taking the visited transaction for the source of the visit.
add_to_chain_SelfSource(chain, tx_data, path, source_txid) ==
    IF chain.t = "dict"
    THEN [chain |-> [chain EXCEPT !.items =
                        SetItem(@, Entry(tx_data.txid, tx_data, tx_data.txid, path))],
          exc |-> "none"]
    ELSE [chain |-> chain, exc |-> "TypeError"]

\* add_to_chain: [chain, exc]; item assignment on a value that is no dict
\* raises TypeError.
add_to_chain(chain, tx_data, path, source_txid) ==
    IF chain.t = "dict"
    THEN [chain |-> [chain EXCEPT !.items =
                        SetItem(@, Entry(tx_data.txid, tx_data, source_txid, path))],
          exc |-> "none"]
    ELSE [chain |-> chain, exc |-> "TypeError"]

(* ------------------------------ navigation ----------------------------- *)
\* The outcome of a command: the chain after it, whether follow_transaction
\* was entered on a transaction (nav, cur), the message it printed (out),
\* its delays and requests (ev), the codes it logged (errs) and the
\* exception that left it, "none" when it returned.
Outcome(chain, nav, cur, out, ev, errs, exc) ==
    [chain |-> chain, nav |-> nav, cur |-> cur, out |-> out, ev |-> ev,
     errs |-> errs, exc |-> exc]

\* The handler stays where it was: nothing recorded, no transaction entered.
Stay(chain, out, ev, errs) == Outcome(chain, FALSE, NoTx, out, ev, errs, "none")

\* A fetched transaction displayed and entered without add_to_chain.
Enter_NoRecord(chain, tx, path, source, ev) ==
    Outcome(chain, TRUE, tx, "Transaction", ev, << >>, "none")

\* A fetched transaction is recorded, displayed and entered.
Enter(chain, tx, path, source, ev) ==
    LET a == add_to_chain(chain, tx, path, source)
    IN  IF a.exc = "none"
        THEN Outcome(a.chain, TRUE, tx, "Transaction", ev, << >>, "none")
        ELSE Outcome(chain, FALSE, NoTx, "Traceback", ev, << >>, a.exc)

\* follow_input_by_index without the test idx < 0: a negative index counts
\* from the end of the list.
follow_input_by_index_NoLowerCheck(chain, tx_data, idx, reply) ==
    LET vin == tx_data.vin
        at  == IF idx < 0 THEN Len(vin) + idx + 1 ELSE idx + 1
    IN  IF idx >= Len(vin) \/ at < 1
        THEN Stay(chain, "Invalid input number.", << >>, << >>)
        ELSE LET prev_txid == vin[at].txid
             IN  IF prev_txid = None
                 THEN Stay(chain, "This is a coinbase input, no previous transaction.",
                           << >>, << >>)
                 ELSE LET f == fetch_transaction_data(prev_txid, reply)
                      IN  IF f.ok
                          THEN Enter(chain, f.tx,
                                     Path("followed input", idx + 1, tx_data.txid),
                                     tx_data.txid, f.ev)
                          ELSE Stay(chain, "Error", f.ev, f.errs \o << 302 >>)

\* follow_input_by_index without the test prev_txid is None.
follow_input_by_index_NoCoinbaseCheck(chain, tx_data, idx, reply) ==
    LET vin == tx_data.vin
    IN  IF idx < 0 \/ idx >= Len(vin)
        THEN Stay(chain, "Invalid input number.", << >>, << >>)
        ELSE LET f == fetch_transaction_data(vin[idx + 1].txid, reply)
             IN  IF f.ok
                 THEN Enter(chain, f.tx,
                            Path("followed input", idx + 1, tx_data.txid),
                            tx_data.txid, f.ev)
                 ELSE Stay(chain, "Error", f.ev, f.errs \o << 302 >>)

follow_input_by_index(chain, tx_data, idx, reply) ==
    LET vin == tx_data.vin
    IN  IF idx < 0 \/ idx >= Len(vin)
        THEN Stay(chain, "Invalid input number.", << >>, << >>)
        ELSE IF Len(vin) = 0
        THEN Stay(chain, "No inputs (possibly a coinbase transaction).", << >>, << >>)
        ELSE LET prev_txid == vin[idx + 1].txid
             IN  IF prev_txid = None
                 THEN Stay(chain, "This is a coinbase input, no previous transaction.",
                           << >>, << >>)
                 ELSE LET f == fetch_transaction_data(prev_txid, reply)
                      IN  IF f.ok
                          THEN Enter(chain, f.tx,
                                     Path("followed input", idx + 1, tx_data.txid),
                                     tx_data.txid, f.ev)
                          ELSE Stay(chain, "Error", f.ev, f.errs \o << 302 >>)

\* follow_output_by_index recording the spending transaction as a root:
\* no source, and the provenance of a query.
follow_output_by_index_AsRoot(chain, tx_data, idx, ospReply, answer, reply) ==
    LET vout == tx_data.vout
    IN  IF idx < 0 \/ idx >= Len(vout)
        THEN Stay(chain, "Invalid output number.", << >>, << >>)
        ELSE LET o == fetch_transaction_outspends(tx_data.txid, ospReply, answer)
             IN  IF ~o.ok
                 THEN Stay(chain, "Error", o.ev, o.errs)
                 ELSE IF idx + 1 > Len(o.spends)
                 THEN Outcome(chain, FALSE, NoTx, "Traceback", o.ev, << >>, "IndexError")
                 ELSE IF o.spends[idx + 1].null
                 THEN Stay(chain, "This output is unspent. No further transaction.",
                           o.ev, << >>)
                 ELSE LET f == fetch_transaction_data(o.spends[idx + 1].txid, reply)
                      IN  IF f.ok
                          THEN Enter(chain, f.tx, Path("initial query", 0, None),
                                     None, o.ev \o f.ev)
                          ELSE Stay(chain, "Error", o.ev \o f.ev, f.errs \o << 301 >>)

follow_output_by_index(chain, tx_data, idx, ospReply, answer, reply) ==
    LET vout == tx_data.vout
    IN  IF idx < 0 \/ idx >= Len(vout)
        THEN Stay(chain, "Invalid output number.", << >>, << >>)
        ELSE IF Len(vout) = 0
        THEN Stay(chain, "No outputs to follow.", << >>, << >>)
        ELSE LET o == fetch_transaction_outspends(tx_data.txid, ospReply, answer)
             IN  IF ~o.ok
                 THEN Stay(chain, "Error", o.ev, o.errs)
                 ELSE IF idx + 1 > Len(o.spends)
                 THEN Outcome(chain, FALSE, NoTx, "Traceback", o.ev, << >>, "IndexError")
                 ELSE IF o.spends[idx + 1].null
                 THEN Stay(chain, "This output is unspent. No further transaction.",
                           o.ev, << >>)
                 ELSE LET next_txid == o.spends[idx + 1].txid
                          f == fetch_transaction_data(next_txid, reply)
                      IN  IF f.ok
                          THEN Enter(chain, f.tx,
                                     Path("followed output", idx + 1, tx_data.txid),
                                     tx_data.txid, o.ev \o f.ev)
                          ELSE Stay(chain, "Error", o.ev \o f.ev, f.errs \o << 301 >>)

(* --------------------------- JSON encoding ----------------------------- *)
\* json.dump writes None as null and a string as a string; a dict key is
\* always written as a string, a None key as the string "null".
JNull == [t |-> "null", v |-> << >>]
JStr(s) == [t |-> "str", v |-> s]

ToJson(v) == IF v = None THEN JNull ELSE JStr(v)

\* FromJson reading null as the empty string.
FromJson_NullAsText(j) == j.v

FromJson(j) == IF j.t = "null" THEN None ELSE j.v

KeyToJson(k) ==
    IF k = None THEN << Rep("n", 1)[1], Rep("u", 1)[1], Rep("l", 2)[1] >> ELSE k

TxToJson(tx) ==
    [txid |-> ToJson(tx.txid),
     vin  |-> [i \in 1..Len(tx.vin) |->
                  [txid |-> ToJson(tx.vin[i].txid), vout |-> tx.vin[i].vout]],
     vout |-> [i \in 1..Len(tx.vout) |->
                  [value |-> tx.vout[i].value, addr |-> ToJson(tx.vout[i].addr)]]]

TxFromJson(j) ==
    [txid |-> FromJson(j.txid),
     vin  |-> [i \in 1..Len(j.vin) |->
                  [txid |-> FromJson(j.vin[i].txid), vout |-> j.vin[i].vout]],
     vout |-> [i \in 1..Len(j.vout) |->
                  [value |-> j.vout[i].value, addr |-> FromJson(j.vout[i].addr)]]]

MemberToJson(e) ==
    [key |-> KeyToJson(e.key), data |-> TxToJson(e.data),
     from |-> ToJson(e.from), path |-> JStr(e.path)]

MemberFromJson(m) ==
    Entry(m.key, TxFromJson(m.data), FromJson(m.from), m.path.v)

\* json.dump(visited_chain): the document, an object for a dict and an
\* array for a list, members in iteration order.
json_dump(chain) ==
    [t |-> IF chain.t = "dict" THEN "object" ELSE "array",
     members |-> [i \in 1..Len(chain.items) |-> MemberToJson(chain.items[i])]]

\* json.load of a complete document.
json_load(doc) ==
    [t |-> IF doc.t = "object" THEN "dict" ELSE "list",
     items |-> [i \in 1..Len(doc.members) |-> MemberFromJson(doc.members[i])]]

(* ------------------------------- files --------------------------------- *)
\* A file is complete (it holds the whole document), partial (opened for
\* writing and not written to the end), garbage (text that is no JSON) or
\* missing.
EmptyDoc == [t |-> "object", members |-> << >>]
File(state, doc) == [state |-> state, doc |-> doc]

\* The name dump_chain gives its file: chain_dump_<int(time.time())>.json,
\* modelled as the second it is called in.
DumpName(t) == t

\* dump_chain: the files after it, the message printed and the codes
\* logged.  io tells how the write went: "ok", "open" (open() raised, the
\* file system is untouched) or "write" (the file was opened, hence
\* truncated, and the write raised before the end).
dump_chain(chain, t, fs, io) ==
    IF io = "ok"
    THEN [fs |-> (DumpName(t) :> File("complete", json_dump(chain))) @@ fs,
          out |-> "Chain dumped", errs |-> << >>]
    ELSE IF io = "write"
    THEN [fs |-> (DumpName(t) :> File("partial", EmptyDoc)) @@ fs,
          out |-> "Error", errs |-> << 401 >>]
    ELSE [fs |-> fs, out |-> "Error", errs |-> << 401 >>]

\* The files the operator keeps beside the dumps.
\* "dangling" is a chain cut out of a longer session: its one entry, TxB,
\* was reached from TxE, a transaction that is not in the file (and that
\* the ledger does not know).  "list" holds the same entry in a JSON array,
\* "garbage" is no JSON, "missing" is no file.  "selfref" is a file written
\* by hand whose one entry, TxC, names itself as the transaction it was
\* reached from.
HandMade ==
    [t |-> "object",
     members |-> << MemberToJson(Entry(TxB, LedgerTx(TxB), TxE,
                                       Path("followed input", 1, TxE))) >>]

SelfMade ==
    [t |-> "object",
     members |-> << MemberToJson(Entry(TxC, LedgerTx(TxC), TxC,
                                       Path("followed input", 1, TxC))) >>]

UserFiles == {"missing", "garbage", "list", "dangling", "selfref"}

UserFile(name) ==
    IF name = "missing" THEN File("missing", EmptyDoc)
    ELSE IF name = "garbage" THEN File("garbage", EmptyDoc)
    ELSE IF name = "list" THEN File("complete", [HandMade EXCEPT !.t = "array"])
    ELSE IF name = "selfref" THEN File("complete", SelfMade)
    ELSE File("complete", HandMade)

(* ------------------------------- loading ------------------------------- *)
\* load_chain: Outcome plus frame, whether its try block is still on the
\* call stack when the next prompt is shown (the operator went on from
\* inside it), and exit, whether the operator typed exit at its prompt.
\* sel is what the operator types at the selection prompt: "number" (the
\* number n), "enter", "m" or "exit".
LoadOutcome(o, frame, exit) ==
    [chain |-> o.chain, nav |-> o.nav, cur |-> o.cur, out |-> o.out, ev |-> o.ev,
     errs |-> o.errs, exc |-> o.exc, frame |-> frame, exit |-> exit]

load_chain(chain, file, sel, n) ==
    IF file.state = "missing"
    THEN LoadOutcome(Stay(chain, "Error", << >>, << 501 >>), FALSE, FALSE)
    ELSE IF file.state # "complete"
    THEN LoadOutcome(Stay(chain, "Error", << >>, << 502 >>), FALSE, FALSE)
    ELSE LET loaded == json_load(file.doc)
         IN  IF Len(loaded.items) = 0
             THEN LoadOutcome(Stay(loaded, "Loaded chain is empty.", << >>, << >>),
                              FALSE, FALSE)
             ELSE IF loaded.t # "dict"
             THEN LoadOutcome(Stay(loaded, "Error", << >>, << 503 >>), FALSE, FALSE)
             ELSE IF sel = "m"
             THEN LoadOutcome(Stay(loaded, "MAIN MENU", << >>, << >>), TRUE, FALSE)
             ELSE IF sel = "exit"
             THEN LoadOutcome(Stay(loaded, "Exiting gracefully...", << >>, << >>),
                              FALSE, TRUE)
             ELSE IF sel = "number" /\ 0 <= n - 1 /\ n - 1 < Len(loaded.items)
             THEN LET tx_data == loaded.items[n].data
                  IN  IF tx_data # NoTx
                      THEN LoadOutcome(Outcome(loaded, TRUE, tx_data, "Transaction",
                                               << >>, << >>, "none"), TRUE, FALSE)
                      ELSE LoadOutcome(
                               Stay(loaded,
                                    "No transaction data found in chain for that txid.",
                                    << >>, << >>), FALSE, FALSE)
             ELSE LoadOutcome(Stay(loaded, "Chain loaded", << >>, << >>), FALSE, FALSE)

(* ------------------------------- queries ------------------------------- *)
\* is_transaction_id looking at the length only.
is_transaction_id_LengthOnly(input_str) == StrLen(input_str) = TXID_LEN

is_transaction_id(input_str) ==
    /\ StrLen(input_str) = TXID_LEN
    /\ \A i \in 1..Len(input_str) : input_str[i].ch \in HexChars

handle_transaction_input(chain, txid, reply) ==
    IF ~is_transaction_id(txid)
    THEN Stay(chain, "Invalid transaction ID format.", << >>, << >>)
    ELSE LET f == fetch_transaction_data(txid, reply)
         IN  IF f.ok
             THEN Enter(chain, f.tx, Path("initial query", 0, None), None, f.ev)
             ELSE Stay(chain, "Error", f.ev, f.errs)

\* The addresses the ledger knows, and their transactions, newest first.
LedgerAddrs == {AddrX}
AddressTxs(address) == << LedgerTx(TxB), LedgerTx(TxA) >>

fetch_address_data(address, reply) ==
    LET ev == << Delay, Get("address", address, "") >>
    IN  IF reply = "200" THEN FetchResult(TRUE, NoTx, << >>, ev, << >>)
        ELSE IF reply = "status" THEN FetchResult(FALSE, NoTx, << >>, ev, << 201 >>)
        ELSE FetchResult(FALSE, NoTx, << >>, ev, << 202 >>)

\* fetch_address_txs asking at once, without delay_request.
fetch_address_txs_NoDelay(address, reply) ==
    LET ev == << Get("address", address, "txs") >>
    IN  IF reply = "200" THEN FetchResult(TRUE, NoTx, AddressTxs(address), ev, << >>)
        ELSE IF reply = "status" THEN FetchResult(FALSE, NoTx, << >>, ev, << 203 >>)
        ELSE FetchResult(FALSE, NoTx, << >>, ev, << 204 >>)

\* The transactions come back in the field spends of the result.
fetch_address_txs(address, reply) ==
    LET ev == << Delay, Get("address", address, "txs") >>
    IN  IF reply = "200" THEN FetchResult(TRUE, NoTx, AddressTxs(address), ev, << >>)
        ELSE IF reply = "status" THEN FetchResult(FALSE, NoTx, << >>, ev, << 203 >>)
        ELSE FetchResult(FALSE, NoTx, << >>, ev, << 204 >>)

handle_address_input(chain, address, reply1, reply2, sel, n, reply3) ==
    LET a == fetch_address_data(address, reply1)
    IN  IF ~a.ok
        THEN Stay(chain, "Error", a.ev, a.errs)
        ELSE LET l == fetch_address_txs(address, reply2)
                 recent_txs == l.spends
                 shown == SubSeq(recent_txs, 1, Min(RECENT_TX_COUNT, Len(recent_txs)))
                 ev2 == a.ev \o l.ev
             IN  IF Len(recent_txs) = 0
                 THEN Stay(chain, "No recent transactions or unable to fetch.",
                           ev2, l.errs)
                 ELSE IF sel = "number" /\ 0 <= n - 1 /\ n - 1 < Len(shown)
                 THEN LET chosen_txid == recent_txs[n].txid
                          f == fetch_transaction_data(chosen_txid, reply3)
                      IN  IF f.ok
                          THEN Enter(chain, f.tx, Path("from address", 0, None), None, ev2 \o f.ev)
                          ELSE Stay(chain, "Error", ev2 \o f.ev, f.errs \o << 102 >>)
                 ELSE Stay(chain, "Recent Transactions", ev2, << >>)

(* ------------------------------ the session ---------------------------- *)
VARIABLES
    visited_chain,  \* the global dict of visited transactions
    mode,           \* the prompt shown: "menu" (main_menu), "nav"
                    \* (follow_transaction), or "exited", "crashed"
    cur,            \* tx_data of the follow_transaction loop at the prompt
    loadFrames,     \* the load_chain try blocks on the call stack
    files,          \* the dump files written, by name
    now,            \* the wall clock, in seconds
    last,           \* the last command: what it was, what it was given,
                    \* the message it printed, its delays and requests,
                    \* the codes it logged
    ncmds           \* the commands issued so far

vars == <<visited_chain, mode, cur, loadFrames, files, now, last, ncmds>>

\* cmd is the command ("tx", "address", "i", "o", "dump", "load", "m",
\* "exit"), arg the number typed with it, got what the command was given
\* from outside: for "tx" the id typed, for "o" the outspend entry at the
\* chosen index, for "load" the kind of file.
Command(cmd, arg, got, out, ev, errs) ==
    [cmd |-> cmd, arg |-> arg, got |-> got, out |-> out, ev |-> ev, errs |-> errs]

\* The outspend entry follow_output_by_index is given at index idx: "none"
\* when no outspends are asked for or none come back, "short" when the list
\* ends before idx, else "null", "unspent" or "spent".
SpendGiven(tx_data, idx, ospReply, answer) ==
    IF idx < 0 \/ idx >= Len(tx_data.vout) \/ ospReply # "200" THEN "none"
    ELSE IF idx + 1 > Len(answer) THEN "short"
    ELSE IF answer[idx + 1].null THEN "null"
    ELSE IF answer[idx + 1].spent THEN "spent"
    ELSE "unspent"

\* The kind of file load_chain is given: "missing", "garbage", "partial",
\* or the JSON value a complete file holds, "object" or "array".
FileGiven(file) == IF file.state = "complete" THEN file.doc.t ELSE file.state

\* What the operator may type.
TxInputs == {TxA, TxB, TxC, TxE, Rep("a", TXID_LEN - 1), Rep("z", TXID_LEN),
             Rep("z", 2) \o Rep("1", 1) \o Rep("2", 1) \o Rep("3", 1)}
\* The numbers typed where one of len items is asked for: 0, the items'
\* numbers, and the first number past them.
Numbers(len) == 0..(len + 1)
AddrInputs == {AddrX, AddrZ}
Selections == {"number", "enter", "m"}

Running == mode \in {"menu", "nav"}

\* The operator issues one more command.
Issue == ncmds < MaxCommands /\ ncmds' = ncmds + 1

\* Seconds slept by the delays of a command.
Elapsed(ev) == REQUEST_DELAY * Cardinality({i \in 1..Len(ev) : ev[i].op = "delay"})

Init ==
    /\ visited_chain = EmptyChain
    /\ mode = "menu"
    /\ cur = NoTx
    /\ loadFrames = 0
    /\ files = << >>
    /\ now = 0
    /\ last = Command("start", 0, "", "MAIN MENU", << >>, << >>)
    /\ ncmds = 0

\* The session after a handler ended with outcome r.  An exception unwinds
\* to the innermost load_chain, whose except clause logs 503 and returns to
\* the menu that called it; main() catches KeyboardInterrupt only, so
\* without such a frame the process ends with a traceback, and its memory
\* is gone.
Settle(cmd, arg, got, r, pushed) ==
    /\ Issue
    /\ now' = now + Elapsed(r.ev)
    /\ IF r.exc # "none"
       THEN IF loadFrames > 0
            THEN /\ mode' = "menu"
                 /\ visited_chain' = r.chain
                 /\ cur' = NoTx
                 /\ loadFrames' = loadFrames - 1
                 /\ last' = Command(cmd, arg, got, "Error", r.ev, r.errs \o << 503 >>)
            ELSE /\ mode' = "crashed"
                 /\ visited_chain' = EmptyChain
                 /\ cur' = NoTx
                 /\ loadFrames' = 0
                 /\ last' = Command(cmd, arg, got, r.out, r.ev, r.errs)
       ELSE /\ mode' = IF r.nav THEN "nav" ELSE mode
            /\ visited_chain' = r.chain
            /\ cur' = IF r.nav THEN r.cur ELSE cur
            /\ loadFrames' = loadFrames + pushed
            /\ last' = Command(cmd, arg, got, r.out, r.ev, r.errs)

\* A second passes at the prompt.  The clock is read for the name of a dump
\* only, so a second passing shows only once a dump bears the current name.
Tick ==
    /\ Running
    /\ DumpName(now) \in DOMAIN files
    /\ now' = now + 1
    /\ UNCHANGED <<visited_chain, mode, cur, loadFrames, files, last, ncmds>>

\* Menu option 2.
QueryTransaction ==
    /\ mode = "menu"
    /\ \E txid \in TxInputs : \E reply \in TxReplies(txid) :
          Settle("tx", 0, txid, handle_transaction_input(visited_chain, txid, reply), 0)
    /\ UNCHANGED files

\* Menu option 1.
QueryAddress ==
    /\ mode = "menu"
    /\ \E address \in AddrInputs :
       \E reply1, reply2 \in Replies(address \in LedgerAddrs) :
       \E sel \in Selections : \E n \in Numbers(Len(AddressTxs(address))) :
       \E reply3 \in Replies(TRUE) :
          /\ reply1 # "200" => reply2 = "status"
          /\ reply2 # "200" => sel = "enter"
          /\ sel # "number" => n = 0
          /\ (sel # "number" \/ n = 0 \/ n > Len(AddressTxs(address)))
                => reply3 = "status"
          /\ Settle("address", n, "",
                 handle_address_input(visited_chain, address, reply1, reply2,
                                      sel, n, reply3), 0)
    /\ UNCHANGED files

\* iN at the navigation prompt.
FollowInput ==
    /\ mode = "nav"
    /\ \E n \in Numbers(Len(cur.vin)) : \E reply \in Replies(TRUE) :
          /\ IF n - 1 >= 0 /\ n - 1 < Len(cur.vin)
             THEN reply \in TxReplies(cur.vin[n].txid)
             ELSE reply = "status"
          /\ Settle("i", n, "", follow_input_by_index(visited_chain, cur, n - 1, reply), 0)
    /\ UNCHANGED files

\* oN at the navigation prompt.
FollowOutput ==
    /\ mode = "nav"
    /\ cur.txid \in LedgerIds
    /\ \E n \in Numbers(Len(cur.vout)) : \E ospReply \in Replies(TRUE) :
       \E answer \in OutspendAnswers(cur.txid) : \E reply \in Replies(TRUE) :
          /\ (ospReply # "200" \/ n = 0 \/ n > Len(cur.vout))
                => answer = Outspends(cur.txid)
          /\ IF ospReply = "200" /\ n >= 1 /\ n <= Len(answer)
             THEN reply \in TxReplies(answer[n].txid)
             ELSE reply = "status"
          /\ Settle("o", n, SpendGiven(cur, n - 1, ospReply, answer),
                    follow_output_by_index(visited_chain, cur, n - 1, ospReply,
                                           answer, reply), 0)
    /\ UNCHANGED files

\* dump at the navigation prompt.
Dump ==
    /\ mode = "nav"
    /\ Issue
    /\ \E io \in {"ok", "open", "write"} :
          LET d == dump_chain(visited_chain, now, files, io)
          IN  /\ files' = d.fs
              /\ last' = Command("dump", 0, io, d.out, << >>, d.errs)
    /\ UNCHANGED <<visited_chain, mode, cur, loadFrames, now>>

\* Menu option 3: the operator names a dump of this run or one of the
\* files kept beside them.
Load(file, sel, n) ==
    LET r == load_chain(visited_chain, file, sel, n)
    IN  IF r.exit
        THEN /\ visited_chain' = EmptyChain
             /\ mode' = "exited"
             /\ cur' = NoTx
             /\ loadFrames' = 0
             /\ last' = Command("load", n, FileGiven(file), r.out, r.ev, r.errs)
             /\ Issue
             /\ UNCHANGED now
        ELSE Settle("load", n, FileGiven(file), r, IF r.frame THEN 1 ELSE 0)

LoadChain ==
    /\ mode = "menu"
    /\ \E sel \in Selections \cup {"exit"} :
          \/ \E t \in DOMAIN files : \E n \in Numbers(Len(files[t].doc.members)) :
                /\ sel # "number" => n = 0
                /\ Load(files[t], sel, n)
          \/ \E u \in UserFiles : \E n \in Numbers(Len(UserFile(u).doc.members)) :
                /\ sel # "number" => n = 0
                /\ Load(UserFile(u), sel, n)
    /\ UNCHANGED files

\* m at the navigation prompt: check_special_commands calls main_menu.
ReturnToMenu ==
    /\ mode = "nav"
    /\ Issue
    /\ mode' = "menu"
    /\ cur' = NoTx
    /\ last' = Command("m", 0, "", "MAIN MENU", << >>, << >>)
    /\ UNCHANGED <<visited_chain, loadFrames, files, now>>

\* exit at a prompt, or menu option 4: sys.exit(0).  The process is gone
\* and its memory with it; the files stay.
Exit ==
    /\ Running
    /\ Issue
    /\ mode' = "exited"
    /\ visited_chain' = EmptyChain
    /\ cur' = NoTx
    /\ loadFrames' = 0
    /\ last' = Command("exit", 0, "", "Exiting gracefully...", << >>, << >>)
    /\ UNCHANGED <<files, now>>

Next ==
    \/ Tick
    \/ QueryTransaction
    \/ QueryAddress
    \/ FollowInput
    \/ FollowOutput
    \/ Dump
    \/ LoadChain
    \/ ReturnToMenu
    \/ Exit

Spec == Init /\ [][Next]_vars

(* ------------------------------ properties ----------------------------- *)
\* The step is a command, not the clock.
Step == ncmds' = ncmds + 1

\* The requests for a transaction record among the events ev.
TxGets(ev) == {i \in 1..Len(ev) : ev[i].op = "get" /\ ev[i].kind = "tx" /\ ev[i].sub = ""}

\* A follow-input command fetched the previous transaction of input
\* last'.arg of the current transaction.
FollowedInput == Step /\ last'.cmd = "i" /\ last'.out = "Transaction"

\* The step wrote the entry of key: it is there once, with from = source and
\* the record of key, and every other entry is as it was, in its place.
Wrote(key, source) ==
    LET old == visited_chain.items
        new == visited_chain'.items
    IN  /\ Keys(visited_chain') = Keys(visited_chain) \cup {key}
        /\ Len(new) = Cardinality(Keys(visited_chain'))
        /\ \A i \in 1..Len(new) :
              new[i].key = key => new[i].from = source /\ new[i].data.txid = key
        /\ \A i \in 1..Len(old) : old[i].key # key => new[i] = old[i]

\* C1, as stated: following input i of tx, when the previous transaction is
\* fetched, adds exactly one new entry to the visited graph, keyed by the
\* previous transaction's id, with from = tx.id, and changes no other entry.
C1_AddsOneNewEntry ==
    [][FollowedInput =>
          LET prev == cur.vin[last'.arg].txid
          IN  /\ prev \notin Keys(visited_chain)
              /\ Len(visited_chain'.items) = Len(visited_chain.items) + 1
              /\ Wrote(prev, cur.txid)]_vars

\* C1, amended: following input i of tx, when the previous transaction is
\* fetched, leaves exactly one entry keyed by the previous transaction's
\* id, with from = tx.id: a new entry when that id was not visited yet, and
\* else the entry of that id, overwritten in place; no other entry is added
\* or changed.
C1_FollowInputRecords ==
    [][FollowedInput =>
          LET prev == cur.vin[last'.arg].txid
          IN  /\ Wrote(prev, cur.txid)
              /\ Len(visited_chain'.items) =
                    Len(visited_chain.items)
                    + (IF prev \in Keys(visited_chain) THEN 0 ELSE 1)]_vars

\* An input was followed to a transaction that is now the current one, and
\* its entry names the transaction it was reached from.
C1_Witness ==
    /\ last.cmd = "i" /\ last.out = "Transaction" /\ mode = "nav"
    /\ \E i \in 1..Len(visited_chain.items) :
          /\ visited_chain.items[i].key = cur.txid
          /\ visited_chain.items[i].from # None

\* C2: following an output whose outspend entry reports it unspent prints
\* the unspent message, requests no transaction, logs no error and leaves
\* the visited graph as it was.
C2_UnspentIsTerminal ==
    [][(Step /\ last'.cmd = "o" /\ last'.got = "unspent") =>
          /\ last'.out = "This output is unspent. No further transaction."
          /\ TxGets(last'.ev) = {}
          /\ last'.errs = << >>
          /\ visited_chain' = visited_chain]_vars

\* C3: following any input of a transaction without inputs prints the
\* no-inputs message, not the invalid-number one, and requests nothing.
C3_NoInputs ==
    [][(Step /\ last'.cmd = "i" /\ mode = "nav" /\ Len(cur.vin) = 0) =>
          /\ last'.out = "No inputs (possibly a coinbase transaction)."
          /\ last'.ev = << >>]_vars

\* C4: a load of a file that holds no serialized graph (text that is no
\* JSON, a file cut short, or JSON that is no mapping) ends with an error
\* and leaves the visited graph as it was.
C4_BadFileLeavesGraph ==
    [][(Step /\ last'.cmd = "load" /\ last'.got \in {"garbage", "partial", "array"}) =>
          /\ last'.out = "Error"
          /\ visited_chain' = visited_chain]_vars

\* Two graphs hold the same entries: the same ids and, for each id, the same
\* record, from link and provenance, whatever the order.
SameEntries(c1, c2) ==
    /\ c1.t = c2.t
    /\ {c1.items[i] : i \in 1..Len(c1.items)} = {c2.items[i] : i \in 1..Len(c2.items)}
    /\ Len(c1.items) = Len(c2.items)

\* C5: the file a successful dump writes holds the whole document, and
\* loading it gives a graph with the same ids and, for each id, the same
\* record, from link (absent included) and provenance as the graph dumped.
C5_RoundTrip ==
    [][(Step /\ last'.cmd = "dump" /\ last'.out = "Chain dumped") =>
          /\ DumpName(now) \in DOMAIN files'
          /\ files'[DumpName(now)].state = "complete"
          /\ LET back == load_chain(EmptyChain, files'[DumpName(now)], "enter", 0)
             IN  /\ back.errs = << >>
                 /\ SameEntries(back.chain, visited_chain)]_vars

\* A dump of a graph with a root entry (no from link) was loaded: the graph
\* in memory is the one the dump file holds.
C5_Witness ==
    /\ last.cmd = "load" /\ last.got = "object" /\ last.errs = << >>
    /\ \E t \in DOMAIN files :
          files[t].state = "complete" /\ files[t].doc = json_dump(visited_chain)
    /\ \E i \in 1..Len(visited_chain.items) :
          /\ visited_chain.items[i].from = None
          /\ visited_chain.items[i].key \in LedgerIds

\* C6: nothing but an exit the operator asks for ends the session: after
\* every other command the session is at a prompt.
C6_OnlyExitEnds == Running \/ last.out = "Exiting gracefully..."

\* C7: following an output for which the outspends answer has no entry (the
\* list is too short, or the entry is null) prints the unspent message,
\* requests no transaction and leaves the visited graph as it was.
C7_NoEntryIsUnspent ==
    [][(Step /\ last'.cmd = "o" /\ last'.got \in {"short", "null"}) =>
          /\ last'.out = "This output is unspent. No further transaction."
          /\ TxGets(last'.ev) = {}
          /\ visited_chain' = visited_chain]_vars

\* A request of the command failed: fetch_* logged its status or exception.
FetchFailed(errs) == \E i \in 1..Len(errs) : errs[i] \in {205, 206, 207, 208}

\* No request is made twice.
NoRetry(ev) ==
    \A i, j \in 1..Len(ev) : (ev[i].op = "get" /\ ev[i] = ev[j]) => i = j

\* C8: when a request of a follow-input or follow-output command fails, the
\* command does not ask again, the visited graph is as it was and the
\* session stays at the same current transaction.
C8_FailedFetch ==
    [][(Step /\ last'.cmd \in {"i", "o"} /\ FetchFailed(last'.errs)) =>
          /\ NoRetry(last'.ev)
          /\ visited_chain' = visited_chain
          /\ mode' = "nav"
          /\ cur' = cur]_vars

\* The fetch of a spending transaction failed.
C8_Witness ==
    /\ last.cmd = "o" /\ last.got = "spent" /\ mode = "nav"
    /\ FetchFailed(last.errs)
    /\ Len(last.ev) = 4

\* The entry e is held by a file, and it was reached from an id that the
\* file does not hold.
DanglingInFile(e) ==
    \E f \in {UserFile(u) : u \in UserFiles} \cup {files[t] : t \in DOMAIN files} :
       /\ f.state = "complete"
       /\ \E i \in 1..Len(f.doc.members) : MemberFromJson(f.doc.members[i]) = e
       /\ e.from \notin Keys(json_load(f.doc))

\* The entry e is one of a file that no dump of the session wrote.
GivenByFile(e) ==
    \E u \in UserFiles :
       /\ UserFile(u).state = "complete"
       /\ \E i \in 1..Len(UserFile(u).doc.members) :
             MemberFromJson(UserFile(u).doc.members[i]) = e

\* The from link of every entry is absent, or the id of another entry of the
\* graph, or excused by the predicate Loaded.
FromLinksHeld(Loaded(_)) ==
    visited_chain.t = "dict" =>
       \A i \in 1..Len(visited_chain.items) :
          LET e == visited_chain.items[i]
          IN  \/ e.from = None
              \/ e.from # e.key /\ e.from \in Keys(visited_chain)
              \/ Loaded(e)

\* An entry a query or a follow writes is reached from nothing or from the
\* id of another entry, recorded before.
FromLinksEarlier ==
    (Step /\ last'.cmd # "load") =>
       \A i \in 1..Len(visited_chain'.items) :
          (i > Len(visited_chain.items) \/ visited_chain'.items[i] # visited_chain.items[i])
             => \/ visited_chain'.items[i].from = None
                \/ /\ visited_chain'.items[i].from \in Keys(visited_chain)
                   /\ visited_chain'.items[i].from # visited_chain'.items[i].key

C10_DumpsStayWhole ==
    [][\A t \in DOMAIN files :
          files[t].state = "complete" =>
             t \in DOMAIN files' /\ files'[t].state = "complete"]_vars

\* The characters of a string, one by one.
RECURSIVE Expand(_)
Expand(s) ==
    IF Len(s) = 0 THEN << >>
    ELSE [i \in 1..s[1].n |-> s[1].ch] \o Expand(Tail(s))

\* Exactly 64 hexadecimal characters.
SixtyFourHex(s) ==
    /\ Len(Expand(s)) = 64
    /\ \A i \in 1..Len(Expand(s)) : Expand(s)[i] \in HexChars

\* C11: a transaction query whose id is not exactly 64 hexadecimal
\* characters is rejected for its format, requests nothing from the ledger
\* and leaves the visited graph (and the menu) as it was.
C11_MalformedIdRejected ==
    [][(Step /\ last'.cmd = "tx" /\ ~SixtyFourHex(last'.got)) =>
          /\ last'.out = "Invalid transaction ID format."
          /\ last'.ev = << >>
          /\ last'.errs = << >>
          /\ visited_chain' = visited_chain
          /\ mode' = "menu"]_vars

\* The id zz123 was typed and rejected.
C11_Witness ==
    /\ last.cmd = "tx"
    /\ Expand(last.got) = << "z", "z", "1", "2", "3" >>
    /\ last.out = "Invalid transaction ID format."

\* C12: at a transaction with inputs, following the input at index -1 (i0)
\* or at index len(inputs) prints the out-of-range message, requests
\* nothing, and leaves the visited graph and the current transaction as
\* they were.
C12_InputIndexOutOfRange ==
    [][(/\ Step /\ last'.cmd = "i" /\ mode = "nav"
        /\ Len(cur.vin) > 0
        /\ last'.arg - 1 \in {-1, Len(cur.vin)}) =>
          /\ last'.out = "Invalid input number."
          /\ last'.ev = << >>
          /\ last'.errs = << >>
          /\ visited_chain' = visited_chain
          /\ mode' = "nav"
          /\ cur' = cur]_vars

\* The input past the last one was asked for at a transaction with inputs.
C12_Witness ==
    /\ last.cmd = "i" /\ mode = "nav"
    /\ Len(cur.vin) > 0
    /\ last.arg - 1 = Len(cur.vin)
    /\ last.out = "Invalid input number."

\* A query or a follow recorded the transaction it fetched.
Recorded ==
    Step /\ last'.cmd \in {"tx", "address", "i", "o"} /\ last'.out = "Transaction"

\* The from link and the provenance the command of the step records.
LaterFrom == IF last'.cmd \in {"i", "o"} THEN cur.txid ELSE None
LaterPath ==
    IF last'.cmd = "i" THEN Path("followed input", last'.arg, cur.txid)
    ELSE IF last'.cmd = "o" THEN Path("followed output", last'.arg, cur.txid)
    ELSE IF last'.cmd = "address" THEN Path("from address", 0, None)
    ELSE Path("initial query", 0, None)

\* C13: recording an id that is already in the visited graph overwrites its
\* entry: the graph has as many entries as before and exactly one for that
\* id, which carries the record, the from link and the provenance of the
\* later recording.
C13_RecordOverwrites ==
    [][(Recorded /\ cur'.txid \in Keys(visited_chain)) =>
          /\ Len(visited_chain'.items) = Len(visited_chain.items)
          /\ Cardinality({i \in 1..Len(visited_chain'.items) :
                             visited_chain'.items[i].key = cur'.txid}) = 1
          /\ \A i \in 1..Len(visited_chain'.items) :
                visited_chain'.items[i].key = cur'.txid =>
                   visited_chain'.items[i] = Entry(cur'.txid, cur', LaterFrom, LaterPath)]_vars

\* TxA was recorded first, TxB was reached from it, and following the input
\* of TxB recorded TxA again: its one entry now says it was reached from
\* TxB.
C13_Witness ==
    /\ last.cmd = "i" /\ last.out = "Transaction"
    /\ Len(visited_chain.items) = 2
    /\ visited_chain.items[1].key = TxA
    /\ visited_chain.items[1].from = TxB
    /\ visited_chain.items[1].path = Path("followed input", 1, TxB)
    /\ visited_chain.items[2].key = TxB
    /\ visited_chain.items[2].from = TxA

\* Every request of ev comes right after a delay.
DelayedRequests(ev) ==
    \A i \in 1..Len(ev) :
       ev[i].op = "get" => i > 1 /\ ev[i - 1].op = "delay"

Requests(ev) == {i \in 1..Len(ev) : ev[i].op = "get"}

\* C14: every request to the ledger service (address, address txs,
\* transaction, outspends) comes right after a delay of REQUEST_DELAY
\* seconds, whether or not a request before it failed: no command makes a
\* request without a delay just before it, and the clock has advanced by
\* REQUEST_DELAY for each request made.
C14_DelayBeforeRequest ==
    /\ [](DelayedRequests(last.ev))
    /\ [][Step => now' - now >= REQUEST_DELAY * Cardinality(Requests(last'.ev))]_vars

\* An address query made three requests, the last of which failed.
C14_Witness ==
    /\ last.cmd = "address"
    /\ Cardinality(Requests(last.ev)) = 3
    /\ \E i \in 1..Len(last.errs) : last.errs[i] = 102

\* C15: following an input that names no previous transaction prints the
\* coinbase message, requests nothing, logs nothing, and leaves the visited
\* graph and the current transaction as they were.
C15_CoinbaseInput ==
    [][(/\ Step /\ last'.cmd = "i" /\ mode = "nav"
        /\ last'.arg \in 1..Len(cur.vin)
        /\ cur.vin[last'.arg].txid = None) =>
          /\ last'.out = "This is a coinbase input, no previous transaction."
          /\ last'.ev = << >>
          /\ last'.errs = << >>
          /\ visited_chain' = visited_chain
          /\ mode' = "nav"
          /\ cur' = cur]_vars

\* The one input of TxA, which names no previous transaction, was followed.
C15_Witness ==
    /\ last.cmd = "i" /\ last.arg = 1 /\ mode = "nav"
    /\ cur.txid = TxA /\ cur.vin[1].txid = None
    /\ last.out = "This is a coinbase input, no previous transaction."

\* C16: following an output at a valid index whose outspend entry says it
\* is spent, when the spending transaction is fetched, records that
\* transaction with from = the current transaction's id and a provenance
\* that names the output number and the current transaction's id, and the
\* session goes on at the spending transaction.
C16_FollowOutputRecords ==
    [][(/\ Step /\ last'.cmd = "o" /\ mode = "nav"
        /\ last'.got = "spent"
        /\ ~FetchFailed(last'.errs)) =>
          LET next == Spender(cur.txid, last'.arg)
          IN  /\ last'.out = "Transaction"
              /\ mode' = "nav"
              /\ cur' = LedgerTx(next)
              /\ Wrote(next, cur.txid)
              /\ \A i \in 1..Len(visited_chain'.items) :
                    visited_chain'.items[i].key = next =>
                       /\ visited_chain'.items[i].data = LedgerTx(next)
                       /\ visited_chain'.items[i].path =
                             Path("followed output", last'.arg, cur.txid)]_vars

\* Output 1 of TxA was followed to TxB, which spends it.
C16_Witness ==
    /\ last.cmd = "o" /\ last.arg = 1 /\ last.got = "spent"
    /\ last.out = "Transaction"
    /\ mode = "nav" /\ cur = LedgerTx(TxB)
    /\ \E i \in 1..Len(visited_chain.items) :
          visited_chain.items[i] =
             Entry(TxB, LedgerTx(TxB), TxA, Path("followed output", 1, TxA))

\* The step added one entry at the end of the graph or overwrote one in its
\* place, and changed no other entry.
OneEntryWritten ==
    LET old == visited_chain.items
        new == visited_chain'.items
    IN  /\ visited_chain'.t = visited_chain.t
        /\ Len(new) \in {Len(old), Len(old) + 1}
        /\ \E k \in Keys(visited_chain') :
              /\ Keys(visited_chain') = Keys(visited_chain) \cup {k}
              /\ \A i \in 1..Len(old) :
                    IF old[i].key = k THEN new[i].key = k ELSE new[i] = old[i]

\* C17: while the session runs, a command changes the visited graph only by
\* adding or overwriting one entry, when it is a query or a follow that
\* recorded a transaction, or by replacing it, when it is a load of a file
\* that holds a graph; every other command (a dump, a command that failed,
\* a terminal outcome) leaves the graph as it was, so that no entry is
\* removed but by a load.
C17_GraphChangesOnlyBy ==
    [][(Step /\ mode' \in {"menu", "nav"}) =>
          \/ visited_chain' = visited_chain
          \/ Recorded /\ OneEntryWritten
          \/ last'.cmd = "load" /\ last'.got = "object" /\ last'.errs = << >>]_vars

\* C18: a dump of the run never opens for writing a file name that an
\* earlier dump of the same run wrote to, so no dump replaces the file of an
\* earlier one.
C18_DumpNamesDiffer ==
    [][(Step /\ last'.cmd = "dump" /\ last'.got \in {"ok", "write"}) =>
          /\ DumpName(now) \notin DOMAIN files
          /\ \A t \in DOMAIN files : files'[t] = files[t]]_vars

\* The ids of a graph in the order in which it iterates.
KeySeq(chain) == [i \in 1..Len(chain.items) |-> chain.items[i].key]

\* The ids of a file in the order in which they are written in it.
FileKeySeq(file) ==
    [i \in 1..Len(file.doc.members) |-> MemberFromJson(file.doc.members[i]).key]

\* s is the sequence t, or t with one more element at its end.
SameOrOneMore(s, t) ==
    /\ Len(s) \in {Len(t), Len(t) + 1}
    /\ \A i \in 1..Len(t) : s[i] = t[i]

\* C19: the graph iterates in the order in which its ids were first
\* recorded: a query or a follow leaves every id in its place and puts a
\* new id at the end; a dump writes the ids in that order, and a load of
\* the file gives a graph that lists them in the order of the file.
C19_InsertionOrder ==
    /\ [][Recorded => SameOrOneMore(KeySeq(visited_chain'), KeySeq(visited_chain))]_vars
    /\ [][(Step /\ last'.cmd = "dump" /\ last'.out = "Chain dumped") =>
             /\ FileKeySeq(files'[DumpName(now)]) = KeySeq(visited_chain)
             /\ KeySeq(load_chain(EmptyChain, files'[DumpName(now)], "enter", 0).chain)
                   = KeySeq(visited_chain)]_vars
    /\ [][(Step /\ last'.cmd = "load" /\ last'.got = "object" /\ mode' \in {"menu", "nav"}) =>
             \E f \in {UserFile(u) : u \in UserFiles} \cup {files[t] : t \in DOMAIN files} :
                /\ f.state = "complete" /\ f.doc.t = "object"
                /\ KeySeq(visited_chain') = FileKeySeq(f)]_vars

\* TxA was recorded first and TxB second; TxA was then recorded again, from
\* TxB, and is still first; the dump just written holds them in that order.
C19_Witness ==
    /\ last.cmd = "dump" /\ last.out = "Chain dumped"
    /\ KeySeq(visited_chain) = << TxA, TxB >>
    /\ visited_chain.items[1].from = TxB
    /\ visited_chain.items[2].from = TxA
    /\ \E t \in DOMAIN files :
          /\ files[t].state = "complete"
          /\ FileKeySeq(files[t]) = << TxA, TxB >>
          /\ json_load(files[t].doc) = visited_chain

\* Each entry is kept under the id of its record, and the transaction the
\* operator is at has an entry, which holds its record.
KeyedByOwnId ==
    /\ visited_chain.t = "dict"
    /\ \A i \in 1..Len(visited_chain.items) :
          visited_chain.items[i].key = visited_chain.items[i].data.txid
    /\ mode = "nav" =>
          \E i \in 1..Len(visited_chain.items) :
             /\ visited_chain.items[i].key = cur.txid
             /\ visited_chain.items[i].data = cur

\* C20: in a session that has loaded no file, that is after any commands
\* but loads from the start, each entry's key is the id of the record it
\* holds, and the transaction the operator is at is a key of the graph
\* whose entry holds its record: this holds at the start, and every command
\* but a load keeps it while the session runs.
C20_KeyedByOwnId ==
    /\ KeyedByOwnId
    /\ [][(KeyedByOwnId /\ Step /\ last'.cmd # "load" /\ mode' \in {"menu", "nav"})
             => KeyedByOwnId']_vars

\* Two commands, a query of TxA and a follow of its output 1, have brought
\* the operator to TxB.
C20_Witness ==
    /\ ncmds = 2 /\ mode = "nav" /\ last.cmd = "o"
    /\ cur = LedgerTx(TxB)
    /\ KeySeq(visited_chain) = << TxA, TxB >>
    /\ KeyedByOwnId
====
